---------------------------- MODULE Spec2Model ----------------------------
(***************************************************************************)
(* Model of the differential text-synchronisation core of livecoding:      *)
(*   public/js/fastdiff.js : diff, fastDiff, diffToChanges                 *)
(*   public/js/client.js   : applyLocalChanges, the content_change handler,*)
(*                           the keypress listener, applyChanges           *)
(* Sequences of characters model both JavaScript strings and the arrays    *)
(* Array.from() makes of them; index i of the code is index i+1 here.      *)
(***************************************************************************)
EXTENDS Integers, Sequences, FiniteSets, TLC

VARIABLES
    \* ---- the diff library driven on its own (SpecDiff) ----
    a, b,            \* the two inputs of the library call
    pc,              \* which library step has run: start, diffed, changes, applied
    engine,          \* which entry point produced the result
    changeIndexes,   \* the record findChangeBoundaryIndexes returned
    atomic,          \* the atomic stream (diff / fastDiff atomicChanges = true)
    changes,         \* the change list (diffToChanges / fastDiff)
    result,          \* a copy of a after applyChanges
    \* ---- the page of every participant (Spec) ----
    registered,      \* registerUserListener has run
    syncValue,       \* the Shadow Copy
    buffer,          \* Codeeditor's content
    keypressed,      \* the pending-keystroke flag
    timeout,         \* the debounce timer is armed
    inbox,           \* content_change events relayed to the participant, in order
    \* ---- observers (no code reads them) ----
    sent,            \* content_change events emitted so far
    keys,            \* keypress events so far
    lateJoin,        \* some participant registered after a patch had been emitted
    burst,           \* per participant: the current keystroke burst
    last             \* the last event and what it did

diffVars == <<a, b, pc, engine, changeIndexes, atomic, changes, result>>
syncVars == <<registered, syncValue, buffer, keypressed, timeout, inbox>>
obsVars  == <<sent, keys, lateJoin, burst, last>>
vars     == <<diffVars, syncVars, obsVars>>

Max(x, y) == IF x > y THEN x ELSE y
Min(x, y) == IF x < y THEN x ELSE y

\* arr[i] of JavaScript: undefined outside the array.
Undefined == "undefined"
At(arr, i) == IF i >= 0 /\ i < Len(arr) THEN arr[i + 1] ELSE Undefined

\* arr.slice(from, to) for 0 <= from.
Slice(arr, from, to) == SubSeq(arr, from + 1, Min(to, Len(arr)))

\* Array(n).fill(v)
Fill(n, v) == [i \in 1..n |-> v]

\* f with f[k] set to v (objects es and fp of diff: keys appear on assignment).
Put(f, k, v) == [x \in (DOMAIN f) \cup {k} |-> IF x = k THEN v ELSE f[x]]

\* The default comparator (a, b) => a === b.
cmp(x, y) == x = y

(***************************************************************************)
(* fastdiff.js : the boundary engine                                       *)
(***************************************************************************)
\* The loop returns the first i below max(arr1.length, arr2.length) that
\* meets its condition, and -1 when there is none.
DifferAt(arr1, arr2, i) ==
    \/ At(arr1, i) = Undefined
    \/ At(arr2, i) = Undefined
    \/ ~cmp(At(arr1, i), At(arr2, i))

\* Variant: the scan stops at the end of the shorter array.
findFirstDifferenceIndexShort(arr1, arr2) ==
    LET hits == {i \in 0..(Min(Len(arr1), Len(arr2)) - 1) : DifferAt(arr1, arr2, i)}
    IN  IF hits = {} THEN -1 ELSE CHOOSE i \in hits : \A j \in hits : i <= j

findFirstDifferenceIndex(arr1, arr2) ==
    LET hits == {i \in 0..(Max(Len(arr1), Len(arr2)) - 1) : DifferAt(arr1, arr2, i)}
    IN  IF hits = {} THEN -1 ELSE CHOOSE i \in hits : \A j \in hits : i <= j

\* Variant of cutAndReverse: nothing is cut, the whole array is reversed.
cutAndReverseWhole(arr, howMany) ==
    [i \in 1..Len(arr) |-> arr[Len(arr) + 1 - i]]

cutAndReverse(arr, howMany) ==
    LET s == SubSeq(arr, howMany + 1, Len(arr))
    IN  [i \in 1..Len(s) |-> s[Len(s) + 1 - i]]

findChangeBoundaryIndexes(arr1, arr2) ==
    LET firstIndex == findFirstDifferenceIndex(arr1, arr2)
        oldArrayReversed == cutAndReverse(arr1, firstIndex)
        newArrayReversed == cutAndReverse(arr2, firstIndex)
        lastIndex == findFirstDifferenceIndex(oldArrayReversed, newArrayReversed)
    IN  IF firstIndex = -1
        THEN [firstIndex |-> -1, lastIndexOld |-> -1, lastIndexNew |-> -1]
        ELSE [firstIndex |-> firstIndex,
              lastIndexOld |-> Len(arr1) - lastIndex,
              lastIndexNew |-> Len(arr2) - lastIndex]

InsertOp(index, values) == [type |-> "insert", index |-> index, values |-> values]
DeleteOp(index, howMany) == [type |-> "delete", index |-> index, howMany |-> howMany]

\* Variant: the delete is placed at firstIndex, before the inserted values.
changeIndexesToChangesDeleteFirst(newArray, ci) ==
    LET ins == IF ci.lastIndexNew - ci.firstIndex > 0
               THEN <<InsertOp(ci.firstIndex,
                               Slice(newArray, ci.firstIndex, ci.lastIndexNew))>>
               ELSE <<>>
        del == IF ci.lastIndexOld - ci.firstIndex > 0
               THEN <<DeleteOp(ci.firstIndex, ci.lastIndexOld - ci.firstIndex)>>
               ELSE <<>>
    IN  ins \o del

\* Variant: the delete keeps its place after the insert but has index
\* firstIndex, without the length of the inserted values.
changeIndexesToChangesDeleteIndex(newArray, ci) ==
    LET ins == IF ci.lastIndexNew - ci.firstIndex > 0
               THEN <<InsertOp(ci.firstIndex,
                               Slice(newArray, ci.firstIndex, ci.lastIndexNew))>>
               ELSE <<>>
        del == IF ci.lastIndexOld - ci.firstIndex > 0
               THEN <<DeleteOp(ci.firstIndex, ci.lastIndexOld - ci.firstIndex)>>
               ELSE <<>>
    IN  ins \o del

changeIndexesToChanges(newArray, ci) ==
    LET ins == IF ci.lastIndexNew - ci.firstIndex > 0
               THEN <<InsertOp(ci.firstIndex,
                               Slice(newArray, ci.firstIndex, ci.lastIndexNew))>>
               ELSE <<>>
        del == IF ci.lastIndexOld - ci.firstIndex > 0
               THEN <<DeleteOp(ci.firstIndex + (ci.lastIndexNew - ci.firstIndex),
                               ci.lastIndexOld - ci.firstIndex)>>
               ELSE <<>>
    IN  ins \o del

\* Variant: identical inputs (firstIndex = -1) get no branch of their own.
changeIndexesToAtomicChangesNoEqualCase(ci, newLength) ==
           (IF ci.firstIndex > 0 THEN Fill(ci.firstIndex, "equal") ELSE <<>>)
        \o (IF ci.lastIndexNew - ci.firstIndex > 0
            THEN Fill(ci.lastIndexNew - ci.firstIndex, "insert") ELSE <<>>)
        \o (IF ci.lastIndexOld - ci.firstIndex > 0
            THEN Fill(ci.lastIndexOld - ci.firstIndex, "delete") ELSE <<>>)
        \o (IF ci.lastIndexNew < newLength
            THEN Fill(newLength - ci.lastIndexNew, "equal") ELSE <<>>)

changeIndexesToAtomicChanges(ci, newLength) ==
    IF ci.firstIndex = -1
    THEN Fill(newLength, "equal")
    ELSE   (IF ci.firstIndex > 0 THEN Fill(ci.firstIndex, "equal") ELSE <<>>)
        \o (IF ci.lastIndexNew - ci.firstIndex > 0
            THEN Fill(ci.lastIndexNew - ci.firstIndex, "insert") ELSE <<>>)
        \o (IF ci.lastIndexOld - ci.firstIndex > 0
            THEN Fill(ci.lastIndexOld - ci.firstIndex, "delete") ELSE <<>>)
        \o (IF ci.lastIndexNew < newLength
            THEN Fill(newLength - ci.lastIndexNew, "equal") ELSE <<>>)

fastDiff(x, y, atomicChanges) ==
    LET ci == findChangeBoundaryIndexes(x, y)
    IN  IF atomicChanges
        THEN changeIndexesToAtomicChanges(ci, Len(y))
        ELSE changeIndexesToChanges(y, ci)

(***************************************************************************)
(* fastdiff.js : the exact engine                                          *)
(***************************************************************************)
\* The thresholds of diff's dispatch.
MaxLength == 200
MaxTotal == 300

\* Variant of the while loop of snake: the 'equal' tokens are not pushed.
RECURSIVE snakeSlideNoPush(_, _, _, _, _)
snakeSlideNoPush(x, y, xi, yi, script) ==
    IF xi < Len(x) /\ yi < Len(y) /\ cmp(At(x, xi), At(y, yi))
    THEN snakeSlideNoPush(x, y, xi + 1, yi + 1, script)
    ELSE [y |-> yi, script |-> script]

\* The while loop of snake: extends the script by one 'equal' per equal pair.
RECURSIVE snakeSlide(_, _, _, _, _)
snakeSlide(x, y, xi, yi, script) ==
    IF xi < Len(x) /\ yi < Len(y) /\ cmp(At(x, xi), At(y, yi))
    THEN snakeSlide(x, y, xi + 1, yi + 1, Append(script, "equal"))
    ELSE [y |-> yi, script |-> script]

\* Variant of snake: y1 is fp[k - 1] itself, without the step of the insert.
snakeNoAdvance(c, st, k) ==
    LET y1 == IF (k - 1) \in DOMAIN st.fp THEN st.fp[k - 1] ELSE -1
        y2 == IF (k + 1) \in DOMAIN st.fp THEN st.fp[k + 1] ELSE -1
        dir == IF y1 > y2 THEN -1 ELSE 1
        copied == IF (k + dir) \in DOMAIN st.es THEN st.es[k + dir]
                  ELSE IF k \in DOMAIN st.es THEN st.es[k]
                  ELSE <<>>
        pushed == Append(copied, IF y1 > y2 THEN c._insert ELSE c._delete)
        y == Max(y1, y2)
        slid == snakeSlide(c.a, c.b, y - k, y, pushed)
    IN  [fp |-> Put(st.fp, k, slid.y), es |-> Put(st.es, k, slid.script)]

\* Variant of snake: a tie between the two neighbours goes to the insert side.
snakeTieInsert(c, st, k) ==
    LET y1 == (IF (k - 1) \in DOMAIN st.fp THEN st.fp[k - 1] ELSE -1) + 1
        y2 == IF (k + 1) \in DOMAIN st.fp THEN st.fp[k + 1] ELSE -1
        dir == IF y1 >= y2 THEN -1 ELSE 1
        copied == IF (k + dir) \in DOMAIN st.es THEN st.es[k + dir]
                  ELSE IF k \in DOMAIN st.es THEN st.es[k]
                  ELSE <<>>
        pushed == Append(copied, IF y1 >= y2 THEN c._insert ELSE c._delete)
        y == Max(y1, y2)
        slid == snakeSlide(c.a, c.b, y - k, y, pushed)
    IN  [fp |-> Put(st.fp, k, slid.y), es |-> Put(st.es, k, slid.script)]

\* snake(k) and the assignment fp[k] = snake(k). st = [fp, es]; c is the
\* closure's environment [a, b, _insert, _delete] (after the swap).
snake(c, st, k) ==
    LET y1 == (IF (k - 1) \in DOMAIN st.fp THEN st.fp[k - 1] ELSE -1) + 1
        y2 == IF (k + 1) \in DOMAIN st.fp THEN st.fp[k + 1] ELSE -1
        dir == IF y1 > y2 THEN -1 ELSE 1
        copied == IF (k + dir) \in DOMAIN st.es THEN st.es[k + dir]
                  ELSE IF k \in DOMAIN st.es THEN st.es[k]
                  ELSE <<>>
        pushed == Append(copied, IF y1 > y2 THEN c._insert ELSE c._delete)
        y == Max(y1, y2)
        slid == snakeSlide(c.a, c.b, y - k, y, pushed)
    IN  [fp |-> Put(st.fp, k, slid.y), es |-> Put(st.es, k, slid.script)]

\* for (k = -p; k < delta; k++) fp[k] = snake(k);
\* (Here and below "IF st1 = st1" only makes TLC evaluate st1 before the
\* next step, as the loop does.)
RECURSIVE sweepUp(_, _, _, _)
sweepUp(c, st, k, delta) ==
    IF k < delta
    THEN LET next(st1) == IF st1 = st1 THEN sweepUp(c, st1, k + 1, delta) ELSE st1
         IN  next(snake(c, st, k))
    ELSE st

\* for (k = delta + p; k > delta; k--) fp[k] = snake(k);
RECURSIVE sweepDown(_, _, _, _)
sweepDown(c, st, k, delta) ==
    IF k > delta
    THEN LET next(st1) == IF st1 = st1 THEN sweepDown(c, st1, k - 1, delta) ELSE st1
         IN  next(snake(c, st, k))
    ELSE st

\* One pass of the do-while body for the given p.
round(c, st, p, delta) ==
    snake(c, sweepDown(c, sweepUp(c, st, -p, delta), delta + p, delta), delta)

\* The do-while loop. It has no exit but fp[delta] = n; the search is cut
\* after Len(a) + Len(b) + 1 rounds, and the result then says so.
RECURSIVE search(_, _, _, _)
search(c, st, p, delta) ==
    LET while(st1) ==
            IF st1.fp[delta] # Len(c.b)
            THEN IF p > Len(c.a) + Len(c.b)
                 THEN [done |-> FALSE, st |-> st1, p |-> p + 1]
                 ELSE search(c, st1, p + 1, delta)
            ELSE [done |-> TRUE, st |-> st1, p |-> p + 1]
    IN  while(round(c, st, p, delta))

\* Variant of the swap: the sequences are swapped, the labels are not.
exactSearchNoLabelSwap(x, y) ==
    LET swap == Len(y) < Len(x)
        c == [a |-> IF swap THEN y ELSE x,
              b |-> IF swap THEN x ELSE y,
              _insert |-> "insert",
              _delete |-> "delete"]
        delta == Len(c.b) - Len(c.a)
        empty == [k \in {} |-> 0]
    IN  [delta |-> delta, run |-> search(c, [fp |-> empty, es |-> empty], 0, delta)]

exactSearch(x, y) ==
    LET swap == Len(y) < Len(x)
        c == [a |-> IF swap THEN y ELSE x,
              b |-> IF swap THEN x ELSE y,
              _insert |-> IF swap THEN "delete" ELSE "insert",
              _delete |-> IF swap THEN "insert" ELSE "delete"]
        delta == Len(c.b) - Len(c.a)
        empty == [k \in {} |-> 0]
    IN  [delta |-> delta, run |-> search(c, [fp |-> empty, es |-> empty], 0, delta)]

Diverged == <<"diverged">>

\* Variant of diff: the bootstrap token is not dropped.
diffKeepsSentinel(x, y) ==
    IF Len(x) > MaxLength \/ Len(y) > MaxLength \/ Len(x) + Len(y) > MaxTotal
    THEN fastDiff(x, y, TRUE)
    ELSE LET return(s) == IF s.run.done THEN s.run.st.es[s.delta] ELSE Diverged
         IN  return(exactSearch(x, y))

diff(x, y) ==
    IF Len(x) > MaxLength \/ Len(y) > MaxLength \/ Len(x) + Len(y) > MaxTotal
    THEN fastDiff(x, y, TRUE)
    ELSE LET return(s) == IF s.run.done THEN Tail(s.run.st.es[s.delta]) ELSE Diverged
         IN  return(exactSearch(x, y))

(***************************************************************************)
(* fastdiff.js : the compactor                                             *)
(***************************************************************************)
\* pushLast(): lastOperation is <<>> (null) or <<op>>.
pushLast(s) == [s EXCEPT !.changes = s.changes \o s.lastOperation,
                         !.lastOperation = <<>>]

\* Variant of isContinuationOf: no token continues the operation before it.
isContinuationOfNever(s, expected) == FALSE

isContinuationOf(s, expected) ==
    s.lastOperation # <<>> /\ s.lastOperation[1].type = expected

\* Variant of the body of diff.forEach: a 'delete' token advances the index
\* as an 'insert' token does.
diffToChangesStepDeleteAdvances(s, change, output) ==
    IF change = "equal"
    THEN [pushLast(s) EXCEPT !.index = s.index + 1]
    ELSE IF change = "insert"
    THEN IF isContinuationOf(s, "insert")
         THEN [s EXCEPT !.lastOperation[1].values = Append(@, At(output, s.index)),
                        !.index = s.index + 1]
         ELSE [pushLast(s) EXCEPT
                        !.lastOperation = <<InsertOp(s.index, <<At(output, s.index)>>)>>,
                        !.index = s.index + 1]
    ELSE IF isContinuationOf(s, "delete")
         THEN [s EXCEPT !.lastOperation[1].howMany = @ + 1, !.index = s.index + 1]
         ELSE [pushLast(s) EXCEPT !.lastOperation = <<DeleteOp(s.index, 1)>>,
                                  !.index = s.index + 1]

\* The body of diff.forEach for one token.
diffToChangesStep(s, change, output) ==
    IF change = "equal"
    THEN [pushLast(s) EXCEPT !.index = s.index + 1]
    ELSE IF change = "insert"
    THEN IF isContinuationOf(s, "insert")
         THEN [s EXCEPT !.lastOperation[1].values = Append(@, At(output, s.index)),
                        !.index = s.index + 1]
         ELSE [pushLast(s) EXCEPT
                        !.lastOperation = <<InsertOp(s.index, <<At(output, s.index)>>)>>,
                        !.index = s.index + 1]
    ELSE IF isContinuationOf(s, "delete")
         THEN [s EXCEPT !.lastOperation[1].howMany = @ + 1]
         ELSE [pushLast(s) EXCEPT !.lastOperation = <<DeleteOp(s.index, 1)>>]

\* diff.forEach over the tokens lo..hi, in order. The range is halved and the
\* left half evaluated first (TLC defers an operator's arguments), which keeps
\* the evaluation shallow on long streams; the steps run in the loop's order.
RECURSIVE diffToChangesFrom(_, _, _, _, _)
diffToChangesFrom(s, d, output, lo, hi) ==
    IF lo > hi THEN s
    ELSE IF lo = hi THEN diffToChangesStep(s, d[lo], output)
    ELSE LET mid == (lo + hi) \div 2
             left == diffToChangesFrom(s, d, output, lo, mid)
         IN  IF left = left THEN diffToChangesFrom(left, d, output, mid + 1, hi)
             ELSE left

diffToChanges(d, output) ==
    pushLast(diffToChangesFrom([changes |-> <<>>, index |-> 0, lastOperation |-> <<>>],
                               d, output, 1, Len(d))).changes

(***************************************************************************)
(* client.js : getChanges, applyChanges                                    *)
(***************************************************************************)
getChanges(input, output) == diffToChanges(diff(input, output), output)

\* input.splice(start, deleteCount, ...items): start and deleteCount are
\* clamped to the array.
Splice(arr, start, deleteCount, items) ==
    LET s == Min(Max(start, 0), Len(arr))
        n == Min(Max(deleteCount, 0), Len(arr) - s)
    IN  SubSeq(arr, 1, s) \o items \o SubSeq(arr, s + n + 1, Len(arr))

\* Variant of the forEach body of applyChanges: deletes are skipped.
applyChangeInsertOnly(input, change) ==
    IF change.type = "insert" THEN Splice(input, change.index, 0, change.values)
    ELSE input

applyChange(input, change) ==
    IF change.type = "insert" THEN Splice(input, change.index, 0, change.values)
    ELSE IF change.type = "delete" THEN Splice(input, change.index, change.howMany, <<>>)
    ELSE input

\* changes.forEach(...), in order.
RECURSIVE applyChangesFrom(_, _, _)
applyChangesFrom(input, chs, i) ==
    IF i > Len(chs) THEN input
    ELSE LET next == applyChange(input, chs[i])
         IN  IF next = next THEN applyChangesFrom(next, chs, i + 1) ELSE next

applyChanges(input, chs) == applyChangesFrom(input, chs, 1)

(***************************************************************************)
(* Inputs of the library calls                                             *)
(***************************************************************************)
Alphabet == {"a", "b"}
MaxLen == 4
Seqs(n) == UNION {[1..k -> Alphabet] : k \in 0..n}

\* The two worked examples of the specification.
Abcabba == <<"a", "b", "c", "a", "b", "b", "a">>
Cbabac == <<"c", "b", "a", "b", "a", "c">>
HelloWorld == <<"h", "e", "l", "l", "o", " ", "w", "o", "r", "l", "d">>
HelloThereWorld ==
    <<"h", "e", "l", "l", "o", " ", "t", "h", "e", "r", "e", " ", "w", "o", "r", "l", "d">>

\* Inputs beyond diff's thresholds: one sequence longer than MaxLength, or
\* two that together are longer than MaxTotal; each a run with a short head
\* and tail.
Framed(n) == {h \o Fill(n, "a") \o t : h \in Seqs(1), t \in Seqs(1)}
LongPairs ==
    (Framed(MaxLength + 1) \X (Framed(MaxLength + 1) \cup Seqs(1)))
    \cup (Seqs(1) \X Framed(MaxLength + 1))
    \cup ({Fill(MaxTotal \div 2 + 1, "a") \o t : t \in Seqs(1)}
          \X {Fill(MaxTotal \div 2 + 1, "b") \o t : t \in Seqs(1)})

\* Atomic streams handed to diffToChanges directly, with the output they are
\* read against: the short streams, and the specification's example.
Tokens == {"equal", "insert", "delete"}
MaxStream == 3
XYZw == <<"x", "Y", "Z", "w">>
ExampleStream == <<"equal", "insert", "insert", "equal", "delete", "delete", "equal">>
Streams == UNION {[1..k -> Tokens] : k \in 0..MaxStream} \cup {ExampleStream}

InputPairs ==
    (Seqs(MaxLen) \X Seqs(MaxLen))
    \cup {<<Abcabba, Cbabac>>, <<Cbabac, Abcabba>>,
          <<HelloWorld, HelloThereWorld>>, <<HelloThereWorld, HelloWorld>>,
          << <<>>, XYZw >>}
    \cup LongPairs

NoIndexes == [firstIndex |-> 0, lastIndexOld |-> 0, lastIndexNew |-> 0]

(***************************************************************************)
(* The participants' pages: initial state                                  *)
(***************************************************************************)
Participants == {"A", "B"}

\* client.js: var minLines = 14; startingValue is minLines line breaks.
minLines == 14
startingValue == Fill(minLines, "\n")

\* What the observers hold when nothing has happened.
NoBurst == [keys |-> 0, runs |-> 0, emits |-> 0, handled |-> 0]
NoEvent == [kind |-> "none", who |-> "none", pending |-> FALSE, armed |-> FALSE,
            before |-> <<>>, bufBefore |-> <<>>, emit |-> <<>>, msg |-> <<>>,
            burst |-> NoBurst]

SyncInit ==
    /\ registered = [p \in Participants |-> FALSE]
    /\ syncValue = [p \in Participants |-> <<>>]
    /\ buffer = [p \in Participants |-> startingValue]
    /\ keypressed = [p \in Participants |-> FALSE]
    /\ timeout = [p \in Participants |-> FALSE]
    /\ inbox = [p \in Participants |-> <<>>]
    /\ sent = 0
    /\ keys = 0
    /\ lateJoin = FALSE
    /\ burst = [p \in Participants |-> NoBurst]
    /\ last = NoEvent

(***************************************************************************)
(* The library driven on its own                                           *)
(***************************************************************************)
DiffInit ==
    /\ \E pair \in InputPairs : a = pair[1] /\ b = pair[2]
    /\ pc = "start"
    /\ engine = "none"
    /\ changeIndexes = NoIndexes
    /\ atomic = <<>>
    /\ changes = <<>>
    /\ result = <<>>
    /\ SyncInit

\* diff(a, b)
CallDiff ==
    /\ pc = "start"
    /\ atomic' = diff(a, b)
    /\ engine' = "diff"
    /\ pc' = "diffed"
    /\ UNCHANGED <<a, b, changeIndexes, changes, result, syncVars, obsVars>>

\* fastDiff(a, b, cmp, true)
CallFastDiffAtomic ==
    /\ pc = "start"
    /\ changeIndexes' = findChangeBoundaryIndexes(a, b)
    /\ atomic' = fastDiff(a, b, TRUE)
    /\ engine' = "fastDiffAtomic"
    /\ pc' = "diffed"
    /\ UNCHANGED <<a, b, changes, result, syncVars, obsVars>>

\* fastDiff(a, b)
CallFastDiff ==
    /\ pc = "start"
    /\ changeIndexes' = findChangeBoundaryIndexes(a, b)
    /\ changes' = fastDiff(a, b, FALSE)
    /\ engine' = "fastDiff"
    /\ pc' = "changes"
    /\ UNCHANGED <<a, b, atomic, result, syncVars, obsVars>>

\* diffToChanges(atomic, b)
CallDiffToChanges ==
    /\ pc = "diffed"
    /\ changes' = diffToChanges(atomic, b)
    /\ pc' = "changes"
    /\ UNCHANGED <<a, b, engine, changeIndexes, atomic, result, syncVars, obsVars>>

\* diffToChanges(stream, b) on a stream given by the caller. The old
\* sequence plays no part in the call: it is made where a is empty.
CallDiffToChangesOnStream ==
    /\ pc = "start"
    /\ a = <<>>
    /\ \E stream \in Streams :
          /\ atomic' = stream
          /\ changes' = diffToChanges(stream, b)
    /\ engine' = "diffToChanges"
    /\ pc' = "changes"
    /\ UNCHANGED <<a, b, changeIndexes, result, syncVars, obsVars>>

\* applyChanges(copy of a, changes)
CallApplyChanges ==
    /\ pc = "changes"
    /\ result' = applyChanges(a, changes)
    /\ pc' = "applied"
    /\ UNCHANGED <<a, b, engine, changeIndexes, atomic, changes, syncVars, obsVars>>

DiffNext ==
    \/ CallDiff
    \/ CallFastDiffAtomic
    \/ CallFastDiff
    \/ CallDiffToChanges
    \/ CallDiffToChangesOnStream
    \/ CallApplyChanges

SpecDiff == DiffInit /\ [][DiffNext]_vars

(***************************************************************************)
(* client.js : the synchronisation loop                                    *)
(***************************************************************************)
\* Variant of applyLocalChanges: the patch is emitted but the Shadow Copy is
\* not replaced by the scratch copy.
applyLocalChangesNoCommit(sv, buf, kp) ==
    LET verify(output, chs, input) ==
            IF output = input
            THEN [syncValue |-> sv, keypressed |-> FALSE, emit |-> <<chs>>]
            ELSE [syncValue |-> sv, keypressed |-> FALSE, emit |-> <<>>]
        apply(output, chs) == verify(output, chs, applyChanges(sv, chs))
    IN  IF kp
        THEN apply(buf, getChanges(sv, buf))
        ELSE [syncValue |-> sv, keypressed |-> kp, emit |-> <<>>]

\* Variant of applyLocalChanges: keypressed is not cleared.
applyLocalChangesKeepsFlag(sv, buf, kp) ==
    LET verify(output, chs, input) ==
            IF output = input
            THEN [syncValue |-> input, keypressed |-> kp, emit |-> <<chs>>]
            ELSE [syncValue |-> sv, keypressed |-> kp, emit |-> <<>>]
        apply(output, chs) == verify(output, chs, applyChanges(sv, chs))
    IN  IF kp
        THEN apply(buf, getChanges(sv, buf))
        ELSE [syncValue |-> sv, keypressed |-> kp, emit |-> <<>>]

\* Variant of applyLocalChanges: it runs whether or not a key was pressed.
applyLocalChangesAlways(sv, buf, kp) ==
    LET verify(output, chs, input) ==
            IF output = input
            THEN [syncValue |-> input, keypressed |-> FALSE, emit |-> <<chs>>]
            ELSE [syncValue |-> sv, keypressed |-> FALSE, emit |-> <<>>]
        apply(output, chs) == verify(output, chs, applyChanges(sv, chs))
    IN  apply(buf, getChanges(sv, buf))

\* applyLocalChanges() on Shadow Copy sv, editor content buf and flag kp:
\* the new Shadow Copy and flag, and the change lists handed to socket.emit.
\* apply: the patch chs is applied to a copy of the Shadow Copy; verify: the
\* copy (input) is compared with the editor content (output).
applyLocalChanges(sv, buf, kp) ==
    LET verify(output, chs, input) ==
            IF output = input
            THEN [syncValue |-> input, keypressed |-> FALSE, emit |-> <<chs>>]
            ELSE [syncValue |-> sv, keypressed |-> FALSE, emit |-> <<>>]
        apply(output, chs) == verify(output, chs, applyChanges(sv, chs))
    IN  IF kp
        THEN apply(buf, getChanges(sv, buf))
        ELSE [syncValue |-> sv, keypressed |-> kp, emit |-> <<>>]

\* The tail of the handler, after applyLocalChanges() returned r:
\* editor.setValue(syncValue.join("")).
setValue(r) ==
    [syncValue |-> r.syncValue, keypressed |-> r.keypressed, emit |-> r.emit,
     buffer |-> r.syncValue]

\* Variant of the handler: the editor is not rewritten.
onContentChangeNoSetValue(sv, buf, kp, incomingChanges) ==
    [buffer |-> buf] @@ applyLocalChanges(applyChanges(sv, incomingChanges), buf, kp)

\* Variant of the handler: applyLocalChanges() is not called.
onContentChangeNoLocal(sv, buf, kp, incomingChanges) ==
    setValue([syncValue |-> applyChanges(sv, incomingChanges), keypressed |-> kp,
              emit |-> <<>>])

\* socket.on('content_change', ...) on Shadow Copy sv, editor content buf
\* and flag kp: the page's new state and what it emitted.
onContentChange(sv, buf, kp, incomingChanges) ==
    setValue(applyLocalChanges(applyChanges(sv, incomingChanges), buf, kp))

\* The server (not part of the sources at hand) hands the change list of a
\* content_change event to the other registered participants of the
\* document, in the order it received them. A message also carries, for the
\* observers only, its sender, the sender's Shadow Copy before and after,
\* and the sender's editor content when it emitted.
Relay(inb, reg, from, msgs) ==
    [q \in Participants |-> IF q # from /\ reg[q] THEN inb[q] \o msgs ELSE inb[q]]

Message(from, base, live, r) ==
    [m \in 1..Len(r.emit) |->
        [changes |-> r.emit[m], from |-> from, base |-> base,
         target |-> r.syncValue, live |-> live]]

\* The editor widget: a key typed at position pos over sel selected
\* characters replaces them by the character. Keystrokes tried: a character
\* typed at the start, and one typed over the second character.
Keystrokes ==
    {[pos |-> 0, sel |-> 0, ch |-> "a"],
     [pos |-> 1, sel |-> 1, ch |-> "b"]}
MaxKeys == 3
TypeInto(buf, key) == Splice(buf, key.pos, key.sel, <<key.ch>>)

\* register.addEventListener('click', registerUserListener)
Register(p) ==
    /\ ~registered[p]
    /\ registered' = [registered EXCEPT ![p] = TRUE]
    /\ syncValue' = [syncValue EXCEPT ![p] = <<>>]
    /\ lateJoin' = (lateJoin \/ sent > 0)
    /\ last' = [NoEvent EXCEPT !.kind = "register", !.who = p,
                               !.before = syncValue[p], !.bufBefore = buffer[p]]
    /\ UNCHANGED <<buffer, keypressed, timeout, inbox, sent, keys, burst, diffVars>>

\* Variant of the keypress listener: no debounce, applyLocalChanges runs on
\* every keypress (and the timer is armed as well).
KeypressNoDebounce(p) ==
    /\ registered[p]
    /\ keys < MaxKeys
    /\ \E key \in Keystrokes :
          /\ key.pos + key.sel <= Len(buffer[p])
          /\ buffer' = [buffer EXCEPT ![p] = TypeInto(buffer[p], key)]
    /\ \E r \in {applyLocalChanges(syncValue[p], buffer'[p], TRUE)} :
           /\ syncValue' = [syncValue EXCEPT ![p] = r.syncValue]
           /\ keypressed' = [keypressed EXCEPT ![p] = r.keypressed]
           /\ inbox' = Relay(inbox, registered, p,
                             Message(p, syncValue[p], buffer'[p], r))
           /\ sent' = sent + Len(r.emit)
           /\ burst' = [burst EXCEPT ![p] =
                           [@ EXCEPT !.keys = @ + 1, !.runs = @ + 1,
                                     !.emits = @ + Len(r.emit)]]
    /\ timeout' = [timeout EXCEPT ![p] = TRUE]
    /\ keys' = keys + 1
    /\ last' = [NoEvent EXCEPT !.kind = "keypress", !.who = p,
                               !.pending = keypressed[p], !.armed = timeout[p],
                               !.before = syncValue[p], !.bufBefore = buffer[p],
                               !.burst = burst'[p]]
    /\ UNCHANGED <<registered, lateJoin, diffVars>>

\* editor.addEventListener('keypress', ...): the widget has taken the key.
Keypress(p) ==
    /\ registered[p]
    /\ keys < MaxKeys
    /\ \E key \in Keystrokes :
          /\ key.pos + key.sel <= Len(buffer[p])
          /\ buffer' = [buffer EXCEPT ![p] = TypeInto(buffer[p], key)]
    /\ keypressed' = [keypressed EXCEPT ![p] = TRUE]
    /\ timeout' = [timeout EXCEPT ![p] = TRUE]
    /\ keys' = keys + 1
    /\ burst' = [burst EXCEPT ![p].keys = @ + 1]
    /\ last' = [NoEvent EXCEPT !.kind = "keypress", !.who = p,
                               !.pending = keypressed[p], !.armed = timeout[p],
                               !.before = syncValue[p], !.bufBefore = buffer[p],
                               !.burst = burst'[p]]
    /\ UNCHANGED <<registered, syncValue, inbox, sent, lateJoin, diffVars>>

\* What a run of applyLocalChanges adds to the burst in progress.
Counted(bu, kp, r) ==
    [bu EXCEPT !.runs = @ + (IF kp THEN 1 ELSE 0), !.emits = @ + Len(r.emit)]

\* The debounce timer fires: applyLocalChanges().
TimerFires(p) ==
    /\ timeout[p]
    /\ \E r \in {applyLocalChanges(syncValue[p], buffer[p], keypressed[p])} :
           /\ syncValue' = [syncValue EXCEPT ![p] = r.syncValue]
           /\ keypressed' = [keypressed EXCEPT ![p] = r.keypressed]
           /\ inbox' = Relay(inbox, registered, p, Message(p, syncValue[p], buffer[p], r))
           /\ sent' = sent + Len(r.emit)
           /\ last' = [NoEvent EXCEPT !.kind = "timer", !.who = p,
                                      !.pending = keypressed[p], !.armed = TRUE,
                                      !.before = syncValue[p], !.bufBefore = buffer[p],
                                      !.emit = r.emit,
                                      !.burst = Counted(burst[p], keypressed[p], r)]
    /\ timeout' = [timeout EXCEPT ![p] = FALSE]
    /\ burst' = [burst EXCEPT ![p] = NoBurst]
    /\ UNCHANGED <<registered, buffer, keys, lateJoin, diffVars>>

\* A relayed content_change event reaches p: the handler runs.
Receive(p) ==
    /\ registered[p]
    /\ inbox[p] # <<>>
    /\ \E msg \in {Head(inbox[p])} :
        \E r \in {onContentChange(syncValue[p], buffer[p], keypressed[p], msg.changes)} :
           /\ syncValue' = [syncValue EXCEPT ![p] = r.syncValue]
           /\ keypressed' = [keypressed EXCEPT ![p] = r.keypressed]
           /\ buffer' = [buffer EXCEPT ![p] = r.buffer]
           /\ inbox' = Relay([inbox EXCEPT ![p] = Tail(@)], registered, p,
                             Message(p, applyChanges(syncValue[p], msg.changes), buffer[p], r))
           /\ sent' = sent + Len(r.emit)
           /\ burst' = [burst EXCEPT ![p] =
                           IF timeout[p]
                           THEN [Counted(@, keypressed[p], r) EXCEPT !.handled = @ + 1]
                           ELSE @]
           /\ last' = [NoEvent EXCEPT !.kind = "receive", !.who = p,
                                      !.pending = keypressed[p], !.armed = timeout[p],
                                      !.before = syncValue[p], !.bufBefore = buffer[p],
                                      !.emit = r.emit, !.msg = <<msg>>,
                                      !.burst = burst'[p]]
    /\ UNCHANGED <<registered, timeout, keys, lateJoin, diffVars>>

Init ==
    /\ a = <<>>
    /\ b = <<>>
    /\ pc = "unused"
    /\ engine = "none"
    /\ changeIndexes = NoIndexes
    /\ atomic = <<>>
    /\ changes = <<>>
    /\ result = <<>>
    /\ SyncInit

Next ==
    \E p \in Participants :
        \/ Register(p)
        \/ Keypress(p)
        \/ TimerFires(p)
        \/ Receive(p)

Spec == Init /\ [][Next]_vars

(***************************************************************************)
(* Properties of the library (checked under SpecDiff)                      *)
(***************************************************************************)
\* Operators of the statements, not of the program.
Count(seq, tokens) == Cardinality({i \in 1..Len(seq) : seq[i] \in tokens})

RECURSIVE LCS(_, _)
LCS(x, y) ==
    IF x = <<>> \/ y = <<>> THEN 0
    ELSE IF Head(x) = Head(y) THEN 1 + LCS(Tail(x), Tail(y))
    ELSE Max(LCS(Tail(x), y), LCS(x, Tail(y)))

CommonPrefixLength(x, y) ==
    Cardinality({i \in 1..Min(Len(x), Len(y)) : \A j \in 1..i : x[j] = y[j]})

WithinThresholds(x, y) ==
    Len(x) <= MaxLength /\ Len(y) <= MaxLength /\ Len(x) + Len(y) <= MaxTotal

\* C1. Round trip: the operations of diffToChanges(diff(a, b), b), applied
\* in list order to a copy of a, yield a sequence equal to b.
C1_RoundTrip ==
    (engine = "diff" /\ pc = "applied") => result = b

C1_Witness ==
    /\ engine = "diff" /\ pc = "applied"
    /\ a = Abcabba /\ b = Cbabac
    /\ Len(changes) > 1
    /\ result = b

\* C7. Minimality of the exact engine: within the thresholds the number of
\* insert and delete tokens of diff(a, b) is len(a) + len(b) - 2 * LCS(a, b);
\* it is 5 for "abcabba" and "cbabac".
C7_Minimal ==
    (engine = "diff" /\ pc = "diffed" /\ WithinThresholds(a, b)) =>
        /\ Count(atomic, {"insert", "delete"}) = Len(a) + Len(b) - 2 * LCS(a, b)
        /\ (a = Abcabba /\ b = Cbabac) => Count(atomic, {"insert", "delete"}) = 5

C7_Witness ==
    /\ engine = "diff" /\ pc = "diffed"
    /\ a = Abcabba /\ b = Cbabac
    /\ Count(atomic, {"insert", "delete"}) = 5

\* C8. Equal inputs: diff(a, a) is len(a) tokens, all 'equal', and
\* diffToChanges of it is the empty list (also for the empty sequence).
C8_EqualInputs ==
    (engine = "diff" /\ a = b) =>
        /\ pc \in {"diffed", "changes", "applied"} => atomic = Fill(Len(a), "equal")
        /\ pc \in {"changes", "applied"} => changes = <<>>

C8_Witness ==
    /\ engine = "diff" /\ pc = "changes"
    /\ a = b /\ Len(a) = MaxLen
    /\ atomic = Fill(MaxLen, "equal")
    /\ changes = <<>>

\* C9. Round trip of the boundary engine, forced on inputs of any size: the
\* compacted output fastDiff(a, b), and diffToChanges(fastDiff(a, b, cmp,
\* true), b), each applied to a copy of a, yield a sequence equal to b.
C9_BoundaryRoundTrip ==
    (engine \in {"fastDiff", "fastDiffAtomic"} /\ pc = "applied") => result = b

C9_Witness ==
    /\ engine = "fastDiff" /\ pc = "applied"
    /\ Len(a) <= MaxLen /\ Len(changes) = 2
    /\ result = b

\* C10. Boundary detection: firstIndex is -1 exactly when a and b are
\* identical and otherwise the length of their longest common prefix; for
\* "hello world" and "hello there world" it is 6 and the compacted output is
\* one insert of "there " at index 6 and no delete.
C10_BoundaryDetection ==
    (engine \in {"fastDiff", "fastDiffAtomic"}) =>
        /\ changeIndexes.firstIndex = -1 <=> a = b
        /\ a # b => changeIndexes.firstIndex = CommonPrefixLength(a, b)
        /\ (a = HelloWorld /\ b = HelloThereWorld) =>
              /\ changeIndexes.firstIndex = 6
              /\ engine = "fastDiff" =>
                    changes = <<InsertOp(6, <<"t", "h", "e", "r", "e", " ">>)>>

C10_Witness ==
    /\ engine = "fastDiff" /\ pc = "changes"
    /\ a = HelloWorld /\ b = HelloThereWorld
    /\ changeIndexes.firstIndex = 6
    /\ Len(changes) = 1

\* FirstFrom(S, i): the least element of S that is at least i.
FirstFrom(S, i) == CHOOSE j \in S : j >= i /\ \A k \in i..(j - 1) : k \notin S

\* The change regions of an atomic stream: the maximal stretches of tokens
\* other than 'equal', each named by the place of its first token.
\* RegionEnd is the place of its last token.
Regions(stream) ==
    {i \in 1..Len(stream) :
        stream[i] # "equal" /\ (i = 1 \/ stream[i - 1] = "equal")}

RegionEnd(stream, i) ==
    FirstFrom({j \in 1..Len(stream) : j = Len(stream) \/ stream[j + 1] = "equal"}, i)

\* The operations the compactor makes of the tokens of the region at lo:
\* those it has pushed after the region's last token, less those pushed
\* before its first.
RegionOps(stream, output, lo) ==
    SubSeq(diffToChanges(SubSeq(stream, 1, RegionEnd(stream, lo)), output),
           Len(diffToChanges(SubSeq(stream, 1, lo - 1), output)) + 1,
           Len(diffToChanges(SubSeq(stream, 1, RegionEnd(stream, lo)), output)))

OfType(ops, type) == {i \in 1..Len(ops) : ops[i].type = type}

\* C11. Patch-list shape: in diffToChanges(diff(a, b), b) every change
\* region of the atomic stream has at most one insert operation and at most
\* one delete operation, and when it has both the insert comes first.
C11_PatchShape ==
    (engine = "diff" /\ pc \in {"changes", "applied"}) =>
        \A r \in Regions(atomic) :
            /\ Cardinality(OfType(RegionOps(atomic, b, r), "insert")) <= 1
            /\ Cardinality(OfType(RegionOps(atomic, b, r), "delete")) <= 1
            /\ \A i \in OfType(RegionOps(atomic, b, r), "insert") :
                  \A j \in OfType(RegionOps(atomic, b, r), "delete") : i < j

\* C12 as stated. Atomic stream length: for a # b the stream diff(a, b) has
\* length len(b); for identical inputs it is len(b) 'equal' tokens.
C12_StreamLength ==
    (engine = "diff" /\ pc = "diffed") =>
        /\ a # b => Len(atomic) = Len(b)
        /\ a = b => atomic = Fill(Len(b), "equal")

\* C12 amended: the 'equal' and 'insert' tokens of diff(a, b) number len(b)
\* and its 'equal' and 'delete' tokens len(a), so its length is len(b) plus
\* the number of its 'delete' tokens; for identical inputs it is len(b)
\* 'equal' tokens.
C12_StreamLengthWithDeletes ==
    (engine = "diff" /\ pc = "diffed") =>
        /\ Count(atomic, {"equal", "insert"}) = Len(b)
        /\ Count(atomic, {"equal", "delete"}) = Len(a)
        /\ Len(atomic) = Len(b) + Count(atomic, {"delete"})
        /\ Count(atomic, {"equal", "insert", "delete"}) = Len(atomic)
        /\ a = b => atomic = Fill(Len(b), "equal")

C12_Witness ==
    /\ engine = "diff" /\ pc = "diffed"
    /\ a # b /\ a # <<>> /\ b # <<>>
    /\ Count(atomic, {"delete"}) > 0
    /\ Count(atomic, {"equal"}) > 0
    /\ Len(atomic) > Len(b)

\* The runs of an atomic stream: the maximal stretches of one token other
\* than 'equal', each named by the place of its first token. RunEnd is the
\* place of its last token, Rank its place among the runs, from 1.
Runs(stream) ==
    {i \in 1..Len(stream) :
        stream[i] # "equal" /\ (i = 1 \/ stream[i - 1] # stream[i])}

RunEnd(stream, i) ==
    FirstFrom({j \in 1..Len(stream) : j = Len(stream) \/ stream[j + 1] # stream[j]}, i)

Rank(runs, i) == Cardinality({q \in runs : q <= i})

Size(op) == IF op.type = "insert" THEN Len(op.values) ELSE op.howMany

\* C13 as stated. Compactor merge: the example stream with output "xYZw"
\* gives an insert with index 1 and values [Y, Z], then a delete with index 3
\* and howMany 2; in general each run of insert tokens becomes one insert
\* and each run of delete tokens one delete.
C13_CompactorMerge ==
    (engine \in {"diff", "fastDiffAtomic", "diffToChanges"}
        /\ pc \in {"changes", "applied"}) =>
        /\ (atomic = ExampleStream /\ b = XYZw) =>
              changes = <<InsertOp(1, <<"Y", "Z">>), DeleteOp(3, 2)>>
        /\ Len(changes) = Cardinality(Runs(atomic))
        /\ \A i \in Runs(atomic) :
              /\ changes[Rank(Runs(atomic), i)].type = atomic[i]
              /\ Size(changes[Rank(Runs(atomic), i)]) = RunEnd(atomic, i) - i + 1

\* C13 amended: ... then a delete with index 4 (the four 'equal' and
\* 'insert' tokens before it) and howMany 2; ...
C13_CompactorMergeIndex4 ==
    (engine \in {"diff", "fastDiffAtomic", "diffToChanges"}
        /\ pc \in {"changes", "applied"}) =>
        /\ (atomic = ExampleStream /\ b = XYZw) =>
              changes = <<InsertOp(1, <<"Y", "Z">>), DeleteOp(4, 2)>>
        /\ Len(changes) = Cardinality(Runs(atomic))
        /\ \A i \in Runs(atomic) :
              /\ changes[Rank(Runs(atomic), i)].type = atomic[i]
              /\ Size(changes[Rank(Runs(atomic), i)]) = RunEnd(atomic, i) - i + 1
              /\ changes[Rank(Runs(atomic), i)].index =
                    Count(SubSeq(atomic, 1, i - 1), {"equal", "insert"})

C13_Witness ==
    /\ engine = "diffToChanges" /\ pc = "changes"
    /\ atomic = ExampleStream /\ b = XYZw
    /\ Len(changes) = 2
    /\ changes[2] = DeleteOp(4, 2)

\* An operation is in range for a sequence: an insert has index at most its
\* length, a delete has index + howMany at most its length. InRange: each
\* operation of chs, from the i-th on, is in range for the sequence the
\* operations before it have left.
OpInRange(input, op) ==
    IF op.type = "insert" THEN op.index >= 0 /\ op.index <= Len(input)
    ELSE op.index >= 0 /\ op.index + op.howMany <= Len(input)

RECURSIVE InRange(_, _, _)
InRange(input, chs, i) ==
    \/ i > Len(chs)
    \/ /\ OpInRange(input, chs[i])
       /\ InRange(applyChange(input, chs[i]), chs, i + 1)

\* C17. Patch indices are valid in application order: each operation of
\* diffToChanges(diff(a, b), b), applied to a in list order, is in range for
\* the sequence left by the operations before it.
C17_IndicesValid ==
    (engine = "diff" /\ pc \in {"changes", "applied"}) => InRange(a, changes, 1)

C17_Witness ==
    /\ engine = "diff" /\ pc = "applied"
    /\ Len(changes) >= 3
    /\ \E i, j \in 1..Len(changes) :
          i < j /\ changes[i].type = "delete" /\ changes[j].type = "insert"
    /\ InRange(a, changes, 1)
    /\ result = b

\* The search s (of exactSearch) has ended, in at most one round more than
\* the shorter sequence has elements, with the furthest point on the target
\* diagonal at n, the length of the longer sequence.
Terminated(s, m, n) ==
    /\ s.run.done
    /\ s.run.p <= m + 1
    /\ s.run.st.fp[s.delta] = n

\* C18. Termination of the exact engine: within the thresholds the do-while
\* loop of diff ends, in a round where fp[delta] equals n exactly.
C18_Terminates ==
    (engine = "diff" /\ pc = "diffed" /\ WithinThresholds(a, b)) =>
        /\ atomic # Diverged
        /\ Terminated(exactSearch(a, b), Min(Len(a), Len(b)), Max(Len(a), Len(b)))

\* The search for "abcabba" and "cbabac" takes three rounds.
C18_Witness ==
    /\ engine = "diff" /\ pc = "diffed"
    /\ a = Abcabba /\ b = Cbabac
    /\ atomic # Diverged
    /\ exactSearch(a, b).run.p = 3

\* The script es[delta] the search s ended with is one token, labelled as an
\* insert of the search (a 'delete' when the inputs were swapped), followed
\* by the stream.
SentinelDropped(s, stream, swapped) ==
    /\ Len(s.run.st.es[s.delta]) = Len(stream) + 1
    /\ s.run.st.es[s.delta] = <<IF swapped THEN "delete" ELSE "insert">> \o stream

\* C22. Token accounting and sentinel drop: in diff(a, b) the 'equal' and
\* 'insert' tokens number len(b) and the 'equal' and 'delete' tokens len(a),
\* also when b is shorter than a and the inputs are swapped; within the
\* thresholds the stream is the script of the search less its first token.
C22_TokenAccounting ==
    (engine = "diff" /\ pc = "diffed") =>
        /\ Count(atomic, {"equal"}) + Count(atomic, {"insert"}) = Len(b)
        /\ Count(atomic, {"equal"}) + Count(atomic, {"delete"}) = Len(a)
        /\ WithinThresholds(a, b) =>
              SentinelDropped(exactSearch(a, b), atomic, Len(b) < Len(a))

C22_Witness ==
    /\ engine = "diff" /\ pc = "diffed"
    /\ a = Abcabba /\ b = Cbabac
    /\ Count(atomic, {"insert"}) = 2 /\ Count(atomic, {"delete"}) = 3
    /\ Count(atomic, {"equal"}) = 4
    /\ Head(exactSearch(a, b).run.st.es[exactSearch(a, b).delta]) = "delete"

\* The stream of four runs that the record r describes for a new sequence
\* of newLength elements.
FourRuns(r, newLength) ==
       Fill(r.firstIndex, "equal")
    \o Fill(r.lastIndexNew - r.firstIndex, "insert")
    \o Fill(r.lastIndexOld - r.firstIndex, "delete")
    \o Fill(newLength - r.lastIndexNew, "equal")

C24_RecordBounds ==
    (engine \in {"fastDiff", "fastDiffAtomic"} /\ a # b) =>
        /\ 0 <= changeIndexes.firstIndex
        /\ changeIndexes.firstIndex <= changeIndexes.lastIndexOld
        /\ changeIndexes.lastIndexOld <= Len(a)
        /\ changeIndexes.firstIndex <= changeIndexes.lastIndexNew
        /\ changeIndexes.lastIndexNew <= Len(b)
        /\ Len(a) - changeIndexes.lastIndexOld = Len(b) - changeIndexes.lastIndexNew
        /\ Slice(a, changeIndexes.lastIndexOld, Len(a))
              = Slice(b, changeIndexes.lastIndexNew, Len(b))

\* "aba" and "abba": the common suffix "ba" would reach into the common
\* prefix "ab" of the old sequence; the record stops it at firstIndex.
C24_Witness ==
    /\ engine = "fastDiff" /\ pc = "changes"
    /\ a = <<"a", "b", "a">> /\ b = <<"a", "b", "b", "a">>
    /\ changeIndexes = [firstIndex |-> 2, lastIndexOld |-> 2, lastIndexNew |-> 3]

(***************************************************************************)
(* Properties of the synchronisation loop (checked under Spec)             *)
(***************************************************************************)
Registered == {p \in Participants : registered[p]}

\* No patch is in flight and no participant has a pending keystroke.
Quiescent == \A p \in Registered : inbox[p] = <<>> /\ ~keypressed[p]

\* C2. Convergence: among participants that started from equal Shadow
\* Copies, whenever no patch is in flight and no keystroke is pending, all
\* Shadow Copies are equal and all editors show the same content.
C2_Convergence ==
    (Quiescent /\ ~lateJoin) =>
        \A p, q \in Registered : syncValue[p] = syncValue[q] /\ buffer[p] = buffer[q]

\* C3. Two parties, one typist: when a participant whose Shadow Copy equals
\* the one the sender's patch was computed from, and who has no pending
\* keystroke, handles that patch, its editor shows the sender's content X
\* and its Shadow Copy equals the sender's Shadow Copy after the emission.
C3_SingleTypist ==
    (last.kind = "receive" /\ ~last.pending /\ last.before = last.msg[1].base) =>
        /\ buffer[last.who] = last.msg[1].live
        /\ syncValue[last.who] = last.msg[1].target
        /\ last.msg[1].target = last.msg[1].live

C3_Witness ==
    /\ last.kind = "receive" /\ ~last.pending
    /\ last.before = last.msg[1].base
    /\ Len(last.msg[1].changes) > 1
    /\ buffer[last.who] # last.bufBefore
    /\ syncValue[last.who] = syncValue[last.msg[1].from]
    /\ buffer[last.who] = buffer[last.msg[1].from]

\* C4. Apply, verify, commit: when the timer fires with a pending keystroke,
\* a patch is emitted exactly if applying the computed patch to a scratch
\* copy of the Shadow Copy reproduces the editor's content; on emission the
\* Shadow Copy is that scratch copy, otherwise it is unchanged and nothing is
\* emitted; either way the pending flag is cleared.
C4_VerifyThenCommit ==
    (last.kind = "timer" /\ last.pending) =>
        LET chs == getChanges(last.before, last.bufBefore)
            scratch == applyChanges(last.before, chs)
        IN  /\ last.emit # <<>> <=> scratch = last.bufBefore
            /\ last.emit # <<>> =>
                  /\ last.emit = <<chs>>
                  /\ syncValue[last.who] = scratch
                  /\ syncValue[last.who] = last.bufBefore
            /\ last.emit = <<>> => syncValue[last.who] = last.before
            /\ ~keypressed[last.who]

C4_Witness ==
    /\ last.kind = "timer" /\ last.pending
    /\ last.emit # <<>>
    /\ last.before # <<>>
    /\ syncValue[last.who] = last.bufBefore
    /\ \E q \in Participants : inbox[q] # <<>>

\* C5 as stated. Debounce coalescing: the keystrokes of a burst, each
\* before the timer armed by the one before has fired, lead to exactly one
\* run of the local reconciliation and exactly one emitted patch, which
\* transforms the Shadow Copy into the editor's content at the firing.
C5_Coalescing ==
    (last.kind = "timer") =>
        /\ last.burst.runs = 1
        /\ last.burst.emits = 1
        /\ last.emit # <<>> => applyChanges(last.before, last.emit[1]) = last.bufBefore

\* C5 amended: ... provided no content_change event is handled between the
\* first keystroke of the burst and the firing. The one run is then the one
\* of the firing.
C5_CoalescingUndisturbed ==
    (last.kind = "timer" /\ last.burst.handled = 0) =>
        /\ last.burst.keys >= 1
        /\ last.pending
        /\ last.burst.runs = 1
        /\ last.burst.emits = 1
        /\ Len(last.emit) = 1
        /\ applyChanges(last.before, last.emit[1]) = last.bufBefore

C5_Witness ==
    /\ last.kind = "timer" /\ last.burst.handled = 0
    /\ last.burst.keys >= 2
    /\ last.burst.emits = 1
    /\ syncValue[last.who] = buffer[last.who]

\* C6. Whole-buffer reconciliation: when the content_change handler has
\* finished, whether or not a keystroke was pending when it started, the
\* editor's entire content equals the Shadow Copy and no edit is pending.
C6_WholeBuffer ==
    (last.kind = "receive") =>
        /\ buffer[last.who] = syncValue[last.who]
        /\ ~keypressed[last.who]

C6_Witness ==
    /\ last.kind = "receive" /\ last.pending
    /\ buffer[last.who] = syncValue[last.who]
    /\ buffer[last.who] # applyChanges(last.before, last.msg[1].changes)

\* C19. Remote patch during a pending local edit: when the handler runs
\* with a keystroke pending and the editor holding L, it ends with Shadow
\* Copy = editor = L, and exactly one patch is emitted, the one computed
\* from the Shadow Copy with the remote patch applied to L.
C19_PendingEditWins ==
    (last.kind = "receive" /\ last.pending) =>
        /\ syncValue[last.who] = last.bufBefore
        /\ buffer[last.who] = last.bufBefore
        /\ Len(last.emit) = 1
        /\ last.emit[1] = getChanges(applyChanges(last.before, last.msg[1].changes),
                                     last.bufBefore)
        /\ applyChanges(applyChanges(last.before, last.msg[1].changes), last.emit[1])
              = last.bufBefore

C19_Witness ==
    /\ last.kind = "receive" /\ last.pending
    /\ last.before # <<>>
    /\ applyChanges(last.before, last.msg[1].changes) # last.before
    /\ applyChanges(last.before, last.msg[1].changes) # last.bufBefore
    /\ Len(last.emit) = 1 /\ last.emit[1] # <<>>
    /\ syncValue[last.who] = last.bufBefore

\* C20. The discard branch is unreachable: whenever applyLocalChanges runs
\* with a keystroke pending (at a timer firing or inside the handler), the
\* verification succeeds: exactly one content_change event is emitted, the
\* Shadow Copy becomes the snapshot of the editor and the flag is cleared,
\* also when the editor already equals the Shadow Copy and the emitted
\* change list is empty.
C20_NoDiscard ==
    (last.kind \in {"timer", "receive"} /\ last.pending) =>
        /\ Len(last.emit) = 1
        /\ syncValue[last.who] = last.bufBefore
        /\ ~keypressed[last.who]
        /\ (last.kind = "timer" /\ last.before = last.bufBefore) => last.emit = << <<>> >>

\* A key typed over an equal character: the timer fires with the editor
\* equal to the Shadow Copy.
C20_Witness ==
    /\ last.kind = "timer" /\ last.pending
    /\ last.before # <<>>
    /\ last.before = last.bufBefore
    /\ last.emit = << <<>> >>
    /\ syncValue[last.who] = last.bufBefore

\* C21. No double emission: a firing of the timer with no keystroke pending
\* (a remote patch was handled while it was armed, and no key typed since)
\* emits nothing and leaves Shadow Copy, editor and flag as they were; the
\* applyLocalChanges run inside a handler with no keystroke pending emits
\* nothing and leaves the patched Shadow Copy; and up to a firing the runs
\* and emissions of a burst are no more than its keystrokes.
C21_NoDoubleEmission ==
    /\ (last.kind = "timer" /\ ~last.pending) =>
          /\ last.emit = <<>>
          /\ syncValue[last.who] = last.before
          /\ buffer[last.who] = last.bufBefore
          /\ ~keypressed[last.who]
    /\ (last.kind = "receive" /\ ~last.pending) =>
          /\ last.emit = <<>>
          /\ syncValue[last.who] = applyChanges(last.before, last.msg[1].changes)
          /\ ~keypressed[last.who]
    /\ (last.kind \in {"timer", "receive"}) =>
          /\ last.burst.runs <= last.burst.keys
          /\ last.burst.emits <= last.burst.runs

C21_Witness ==
    /\ last.kind = "timer" /\ ~last.pending
    /\ last.burst.keys >= 1 /\ last.burst.handled >= 1
    /\ last.burst.emits = 1
    /\ last.emit = <<>>
    /\ syncValue[last.who] = last.before
    /\ last.before # <<>>

\* C14. Initial state: at page load and after registration, as long as no
\* key has been typed and no patch sent (so no participant has committed or
\* received anything), every participant's Shadow Copy and editor both hold
\* the filler, minLines line breaks.
C14_InitialFiller ==
    (keys = 0 /\ sent = 0) =>
        \A p \in Participants :
            /\ syncValue[p] = startingValue
            /\ buffer[p] = startingValue

\* C15. Only self-consistent patches are applied: whenever a participant
\* handles an inbound patch, each operation of the patch is in range for the
\* Shadow Copy at the moment it is applied.
C15_InboundInRange ==
    (last.kind = "receive") => InRange(last.before, last.msg[1].changes, 1)

\* The handler's last run left exactly what r says: the page shows no other
\* outcome than that of an ordinary run.
OrdinaryOutcome(r) ==
    /\ syncValue[last.who] = r.syncValue
    /\ buffer[last.who] = r.buffer
    /\ keypressed[last.who] = r.keypressed
    /\ last.emit = r.emit

\* C16. Out-of-range inbound patch: when an operation of a handled patch is
\* out of range for the Shadow Copy, the participant's outcome is
\* distinguishable from that of applying the patch (clamped) and carrying
\* on as usual.
C16_DesyncSurfaced ==
    (last.kind = "receive" /\ ~InRange(last.before, last.msg[1].changes, 1)) =>
        ~OrdinaryOutcome(onContentChange(last.before, last.bufBefore, last.pending,
                                         last.msg[1].changes))

=============================================================================
